---------------------------- MODULE Spec2Model ----------------------------
(***************************************************************************)
(* go-update: inspect the executables of $GOBIN, resolve the latest        *)
(* version of each and, in update mode, reinstall the outdated ones.       *)
(*                                                                         *)
(* Spec       the Artefact based orchestrator (Main, artefact.go).         *)
(* SpecLegacy the earlier list-then-update orchestrator (update, list,     *)
(*            inspectBinary, latest, execUpdate).                          *)
(* SpecEscape escapeModuleName on its own.                                 *)
(* SpecTags   the choice of the target among the tags (updateBin).         *)
(* SpecIgnore the ignore file: ignoreFile at init, ignore in Main.         *)
(*                                                                         *)
(* Strings.  Version strings and log messages are TLA+ strings.  A Go      *)
(* toolchain version (debug.BuildInfo.GoVersion) is a sequence of one      *)
(* character strings, because the code orders it bytewise.  A slash        *)
(* separated path is the sequence of its elements.  A response body is a   *)
(* sequence of pieces of text, a line feed being a piece of its own.       *)
(***************************************************************************)
EXTENDS Integers, Sequences, FiniteSets, TLC

VARIABLES
    logLevel,   \* var logLevel: what $LOG says, slog.LevelError without it
    arg,        \* the input of the function under study (SpecEscape, ...)
    result,     \* what the function under study returned for arg, or None
    minGoVersion, \* var minGoVersion: "go1.18" or what $GOMINVERSION says
    list,       \* Main: var list bool (run mode)
    entries,    \* the build info of the executables fs.ReadDir found, in order
    i,          \* position of the range loop over entries
    pc,         \* where the run is: the loop head, a step of Update, or done
    artefacts,  \* Main: var artefacts []Artefact
    files,      \* $GOBIN: names of the versioned toolchain binaries present
    alias,      \* $GOBIN/go: the name the symlink points at, or None
    visited,    \* per processed entry: the response it got and what happened
    updates,    \* per Update call: $GOBIN before it, its steps, its result
    calls,      \* the external commands and filesystem calls made, in order
    logs,       \* the log records emitted, in order
    report,     \* the table handed to tablePrint, or None
    ret,        \* what Main (or the legacy update) returned, once done
    bs,         \* legacy: the binaries list() collected
    j           \* legacy: position of update()'s loop over bs

vars == <<logLevel, arg, result, minGoVersion, list, entries, i, pc, artefacts, files,
          alias, visited, updates,
          calls, logs, report, ret, bs, j>>

None == "none"
Nil == "nil"

\* slog.Level
LevelDebug == -4
LevelInfo == 0
LevelError == 8

\* $LOG: debug, info, or unset
LogLevels == {LevelDebug, LevelInfo, LevelError}

(***************************************************************************)
(* Bounds of the model.                                                    *)
(***************************************************************************)
MaxEntries == 2

(***************************************************************************)
(* Byte strings.                                                           *)
(***************************************************************************)
\* the characters used, in ASCII order
Chars == <<".", "0", "1", "2", "3", "4", "5", "6", "7", "8", "9", "g", "o">>

Ord(c) == CHOOSE k \in 1..Len(Chars) : Chars[k] = c

RECURSIVE StrLess(_, _)
\* Go's < on strings: bytewise lexicographic, a proper prefix is smaller
StrLess(s, t) ==
    IF t = <<>> THEN FALSE
    ELSE IF s = <<>> THEN TRUE
    ELSE IF s[1] = t[1] THEN StrLess(Tail(s), Tail(t))
    ELSE Ord(s[1]) < Ord(t[1])

RECURSIVE Decimal(_)
Decimal(n) ==
    IF n < 10 THEN <<Chars[n + 2]>>
    ELSE Decimal(n \div 10) \o <<Chars[(n % 10) + 2]>>

RECURSIVE Dotted(_)
\* the numbers joined by "."
Dotted(ns) ==
    IF Len(ns) = 1 THEN Decimal(ns[1])
    ELSE Decimal(ns[1]) \o <<".">> \o Dotted(Tail(ns))

\* the release with these numbers as runtime.Version() prints it: go1.21.9
GoRelease(ns) == <<"g", "o">> \o Dotted(ns)

RECURSIVE ParseNat(_)
ParseNat(ds) ==
    IF ds = <<>> THEN 0
    ELSE 10 * ParseNat(SubSeq(ds, 1, Len(ds) - 1)) + (Ord(ds[Len(ds)]) - 2)

RECURSIVE Numbers(_, _)
\* the numbers of a dotted string, acc being the digits read so far
Numbers(s, acc) ==
    IF s = <<>> THEN <<ParseNat(acc)>>
    ELSE IF s[1] = "." THEN <<ParseNat(acc)>> \o Numbers(Tail(s), <<>>)
    ELSE Numbers(Tail(s), Append(acc, s[1]))

\* the numeric components of a release string
Components(v) == Numbers(SubSeq(v, 3, Len(v)), <<>>)

Last(s) == s[Len(s)]

(***************************************************************************)
(* Configuration (package level variables of main).                        *)
(***************************************************************************)
\* the default, and a value set through $GOMINVERSION
MinGoVersions == {GoRelease(<<1, 18>>), GoRelease(<<1, 21, 10>>)}

goModule == <<"golang.org", "dl">>


(***************************************************************************)
(* The executables of $GOBIN (debug.BuildInfo as buildinfo.ReadFile        *)
(* returns it, with the name of the file it was read from).                *)
(***************************************************************************)
ZeroBuildInfo ==
    [GoVersion |-> <<>>, Path |-> <<>>,
     Main |-> [Path |-> <<>>, Version |-> ""], Settings |-> <<>>]

\* a golang.org/dl wrapper: package golang.org/dl/<release>
ToolchainInfo(release, built) ==
    [GoVersion |-> GoRelease(built), Path |-> goModule \o <<release>>,
     Main |-> [Path |-> goModule, Version |-> "v0.0.0-20240206"],
     Settings |-> <<[Key |-> "CGO_ENABLED", Value |-> "1"]>>]

\* an ordinary module whose main package is nested below the module root
BinaryInfo(version, built) ==
    [GoVersion |-> GoRelease(built),
     Path |-> <<"example.com", "Tool", "cmd", "tool">>,
     Main |-> [Path |-> <<"example.com", "Tool">>, Version |-> version],
     Settings |-> <<[Key |-> "-tags", Value |-> "netgo"],
                    [Key |-> "CGO_ENABLED", Value |-> "1"]>>]

\* the candidate files, in the file name order fs.ReadDir returns
Candidates ==
    << [Name |-> "go1.21",    Info |-> ToolchainInfo("go1.21.0", <<1, 22, 1>>)],
       [Name |-> "go1.21.0",  Info |-> ToolchainInfo("go1.21.0", <<1, 22, 1>>)],
       [Name |-> "go1.22.0",  Info |-> ToolchainInfo("go1.22.0", <<1, 22, 1>>)],
       [Name |-> "tool",      Info |-> BinaryInfo("v1.0.0", <<1, 22, 1>>)],
       [Name |-> "tool-1.17", Info |-> BinaryInfo("v1.0.0", <<1, 17>>)],
       [Name |-> "tool-1.21", Info |-> BinaryInfo("v1.0.0", <<1, 21, 9>>)] >>

\* strictly increasing index sequences of length n over 1..m
RECURSIVE Increasing(_, _)
Increasing(n, m) ==
    IF n = 0 THEN {<<>>}
    ELSE UNION {{Append(s, k) : k \in {x \in 1..m : s = <<>> \/ x > Last(s)}} :
                s \in Increasing(n - 1, m)}

\* what fs.ReadDir can return: distinct files, sorted by file name
Listings ==
    {[k \in 1..Len(s) |-> Candidates[s[k]]] :
        s \in UNION {Increasing(n, Len(Candidates)) : n \in 0..MaxEntries}}

(***************************************************************************)
(* HTTP responses of client.Get.  err: the transport failed.  readErr:     *)
(* reading the body failed.  body: the pieces of the body.  decodeErr,     *)
(* Version: what json.Decode makes of the body.                            *)
(***************************************************************************)
Response(err, status, readErr, body, decodeErr, version) ==
    [err |-> err, StatusCode |-> status, readErr |-> readErr, body |-> body,
     decodeErr |-> decodeErr, Version |-> version]

NL == "\n"

NoResponse == Response(FALSE, 0, FALSE, <<>>, FALSE, "")

StatusOK == 200

\* answers of https://proxy.golang.org/<module>/@latest
ProxyResponses ==
    { Response(TRUE, 0, FALSE, <<>>, FALSE, ""),
      Response(FALSE, 404, FALSE, <<"not found: module lookup disabled">>, TRUE, ""),
      Response(FALSE, StatusOK, FALSE, <<"<html>">>, TRUE, ""),
      Response(FALSE, StatusOK, FALSE, <<"{Version: v1.0.0}">>, FALSE, "v1.0.0"),
      Response(FALSE, StatusOK, FALSE, <<"{Version: v1.0.0+incompatible}">>, FALSE,
               "v1.0.0+incompatible"),
      Response(FALSE, StatusOK, FALSE, <<"{Version: v1.2.0}">>, FALSE, "v1.2.0") }

\* answers of https://go.dev/VERSION?m=text
VersionResponses ==
    { Response(TRUE, 0, FALSE, <<>>, FALSE, ""),
      Response(FALSE, StatusOK, TRUE, <<"go1.2">>, TRUE, ""),
      Response(FALSE, StatusOK, FALSE, <<"go1.22.0">>, TRUE, ""),
      Response(FALSE, StatusOK, FALSE,
               <<"go1.22", ".0", NL, "time 2024-02-06T00:00:00Z", NL>>, TRUE, ""),
      Response(FALSE, StatusOK, FALSE, <<"go1.23.0", NL>>, TRUE, ""),
      Response(FALSE, 503, FALSE, <<"upstream unavailable", NL>>, TRUE, "") }

(***************************************************************************)
(* artefact.go                                                             *)
(***************************************************************************)
Failed(msg) ==
    [err |-> msg,
     a |-> [kind |-> None, BuildInfo |-> ZeroBuildInfo, installedVersion |-> "",
            targetVersion |-> ""]]

Made(a) == [err |-> Nil, a |-> a]

newBinary(bi, res) ==
    IF res.err THEN Failed("transport error")
    ELSE IF res.StatusCode # StatusOK THEN Failed("get latest version")
    ELSE IF res.decodeErr THEN Failed("decode error")
    ELSE Made([kind |-> "binary", BuildInfo |-> bi, installedVersion |-> "",
               targetVersion |-> res.Version])

\* string(body): the pieces in one string
RECURSIVE String(_)
String(body) == IF body = <<>> THEN "" ELSE Head(body) \o String(Tail(body))

\* strings.Index(s, sep) counted in pieces, -1 without sep
RECURSIVE Index(_, _)
Index(s, sep) ==
    IF s = <<>> THEN -1
    ELSE IF Head(s) = sep THEN 0
    ELSE LET r == Index(Tail(s), sep) IN IF r = -1 THEN -1 ELSE r + 1

\* the mutant hands the body back whole
SplitNWhole(s, sep) == <<s>>

\* strings.SplitN(s, sep, 2): s cut at its first sep, s alone without one
SplitN(s, sep) ==
    LET m == Index(s, sep)
    IN  IF m < 0 THEN <<s>> ELSE <<SubSeq(s, 1, m), SubSeq(s, m + 2, Len(s))>>

newGoToolchain(bi, res) ==
    IF bi.Main.Path # goModule THEN Failed("build info is not a go toolchain")
    ELSE IF res.err THEN Failed("transport error")
    ELSE IF res.readErr THEN Failed("read error")
    ELSE Made([kind |-> "goToolchain", BuildInfo |-> ZeroBuildInfo,
               installedVersion |-> Last(bi.Path),
               targetVersion |-> String(SplitN(res.body, NL)[1])])

\* bi is a *debug.BuildInfo: the empty sequence is the nil pointer
NewArtefact(bi, res) ==
    IF bi = <<>> THEN Failed("build info is nil")
    ELSE IF bi[1].Main.Path = goModule THEN newGoToolchain(bi[1], res)
    ELSE newBinary(bi[1], res)

\* the endpoint NewArtefact asks, by the same dispatch
Endpoint(bi) == IF bi.Main.Path = goModule THEN "go.dev" ELSE "proxy.golang.org"

Responses(bi) == IF bi.Main.Path = goModule THEN VersionResponses ELSE ProxyResponses

ModulePath(a) == IF a.kind = "goToolchain" THEN goModule ELSE a.BuildInfo.Main.Path

\* the mutant installs the module root instead of the main package
InstallPathModuleRoot(a) ==
    IF a.kind = "goToolchain" THEN ModulePath(a) \o <<a.targetVersion>>
    ELSE a.BuildInfo.Main.Path

InstallPath(a) ==
    IF a.kind = "goToolchain" THEN ModulePath(a) \o <<a.targetVersion>>
    ELSE a.BuildInfo.Path

InstalledVersion(a) ==
    IF a.kind = "goToolchain" THEN a.installedVersion ELSE a.BuildInfo.Main.Version

TargetVersion(a) == a.targetVersion

\* semantic version equality ignores build metadata (the "+..." suffix)
Canonical(v) == IF v = "v1.0.0+incompatible" THEN "v1.0.0" ELSE v

NeedsUpdateSemver(a) == Canonical(TargetVersion(a)) # Canonical(InstalledVersion(a))

\* the mutant reinstalls every artefact
NeedsUpdateAlways(a) == TRUE

NeedsUpdate(a) == TargetVersion(a) # InstalledVersion(a)

(***************************************************************************)
(* goToolchain.Update: the five steps and when a step's error ends it.     *)
(***************************************************************************)
\* mutant of Steps: the old binary and the alias are removed before the download
StepsRemovingFirst == <<"install", "removeOld", "removeAlias", "download", "symlink">>

Steps == <<"install", "download", "removeOld", "removeAlias", "symlink">>

StepNo(step) == CHOOSE k \in 1..Len(Steps) : Steps[k] = step

ErrNotExist == "ENOENT"

\* the mutant takes no error for "does not exist"
IsNotExistNever(err) == FALSE

IsNotExist(err) == err = ErrNotExist

\* mutants of Aborts: a failed download is ignored; any removal error is tolerated
AbortsIgnoringDownload(step, err) ==
    IF step = "download" THEN FALSE
    ELSE IF step \in {"removeOld", "removeAlias"} THEN err # Nil /\ ~IsNotExist(err)
    ELSE err # Nil

AbortsToleratingRemoval(step, err) ==
    IF step \in {"removeOld", "removeAlias"} THEN FALSE ELSE err # Nil

\* `if err != nil { return err }`, and for the two removals
\* `if err != nil && !errors.Is(err, os.ErrNotExist) { return err }`
Aborts(step, err) ==
    IF step \in {"removeOld", "removeAlias"} THEN err # Nil /\ ~IsNotExist(err)
    ELSE err # Nil

\* outcomes of os.Remove of a name that exists or not
RemoveErrors(exists) == (IF exists THEN {Nil} ELSE {ErrNotExist}) \cup {"EACCES"}

\* outcomes of os.Symlink when the new name exists or not
SymlinkErrors(exists) == IF exists THEN {"EEXIST"} ELSE {Nil, "EACCES"}

\* outcomes of running a command
RunErrors == {Nil, "exit status 1"}

(***************************************************************************)
(* Main: the loop over the entries.                                        *)
(***************************************************************************)
\* `info.GoVersion < minGoVersion`
TooOld(bi) == StrLess(bi.GoVersion, minGoVersion)

\* mutants of SkipUpdate: the run mode is not looked at; NeedsUpdate is not
SkipUpdateIgnoringMode(l, a) == ~NeedsUpdate(a)

SkipUpdateIgnoringNeed(l, a) == l

\* `if list || !a.NeedsUpdate() { continue }`
SkipUpdate(l, a) == l \/ ~NeedsUpdate(a)

Call(op, path, a) == [op |-> op, i |-> i, path |-> path, arg |-> a, flags |-> <<>>]

\* install: the command line is go install [-v] [-x] pkg@version
install(pkg, version) ==
    [Call("install", pkg, version) EXCEPT
        !.flags = (IF logLevel <= LevelInfo THEN <<"-v">> ELSE <<>>)
                  \o (IF logLevel <= LevelDebug THEN <<"-x">> ELSE <<>>)]

Log(level, msg) == [i |-> i, level |-> level, msg |-> msg]

Visit(res, outcome) == [i |-> i, res |-> res, outcome |-> outcome]

\* the artefact of the current iteration
Cur == artefacts[Len(artefacts)]

Init ==
    /\ logLevel \in LogLevels
    /\ arg = None
    /\ result = None
    /\ minGoVersion \in MinGoVersions
    /\ list \in BOOLEAN
    /\ entries \in Listings
    /\ i = 1
    /\ pc = "loop"
    /\ artefacts = <<>>
    /\ files = {entries[k].Name : k \in {x \in 1..Len(entries) :
                                          entries[x].Info.Main.Path = goModule}}
    /\ alias \in {None} \cup files
    /\ visited = <<>>
    /\ updates = <<>>
    /\ calls = <<>>
    /\ logs = <<>>
    /\ report = None
    /\ ret = None
    /\ bs = <<>>
    /\ j = 1

\* the entry's file is still there (an earlier Update may have removed it)
Present(e) == e.Info.Main.Path # goModule \/ e.Name \in files

\* entry.Info() fails for a file that is gone: logged, next entry
Vanished ==
    /\ pc = "loop" /\ i <= Len(entries)
    /\ ~Present(entries[i])
    /\ logs' = Append(logs, Log("ERROR", "reading file info failed"))
    /\ visited' = Append(visited, Visit(NoResponse, "unreadable"))
    /\ i' = i + 1
    /\ UNCHANGED <<logLevel, arg, result, minGoVersion, list, entries,
                   pc, artefacts, files, alias, updates, calls,
                   report, ret, bs, j>>

\* the entry's toolchain is older than the minimum: logged, next entry
Reject ==
    /\ pc = "loop" /\ i <= Len(entries)
    /\ Present(entries[i])
    /\ TooOld(entries[i].Info)
    /\ logs' = Append(logs, Log("ERROR", "go version too old to update"))
    /\ visited' = Append(visited, Visit(NoResponse, "rejected"))
    /\ i' = i + 1
    /\ UNCHANGED <<logLevel, arg, result, minGoVersion, list, entries,
                   pc, artefacts, files, alias, updates, calls,
                   report, ret, bs, j>>

\* mutant of LoadFailed: the error ends the run
LoadFailedFatal ==
    /\ pc = "loop" /\ i <= Len(entries)
    /\ Present(entries[i])
    /\ ~TooOld(entries[i].Info)
    /\ \E res \in Responses(entries[i].Info) :
          /\ NewArtefact(<<entries[i].Info>>, res).err # Nil
          /\ visited' = Append(visited, Visit(res, "failed"))
          /\ ret' = NewArtefact(<<entries[i].Info>>, res).err
    /\ calls' = Append(calls, Call("GET", <<>>, Endpoint(entries[i].Info)))
    /\ logs' = Append(logs, Log("ERROR", "loading artefact failed"))
    /\ pc' = "done"
    /\ UNCHANGED <<logLevel, arg, result, minGoVersion, list, entries,
                   i, artefacts, files, alias, updates, report,
                   bs, j>>

\* NewArtefact returns an error: logged, next entry
LoadFailed ==
    /\ pc = "loop" /\ i <= Len(entries)
    /\ Present(entries[i])
    /\ ~TooOld(entries[i].Info)
    /\ \E res \in Responses(entries[i].Info) :
          /\ NewArtefact(<<entries[i].Info>>, res).err # Nil
          /\ visited' = Append(visited, Visit(res, "failed"))
    /\ calls' = Append(calls, Call("GET", <<>>, Endpoint(entries[i].Info)))
    /\ logs' = Append(logs, Log("ERROR", "loading artefact failed"))
    /\ i' = i + 1
    /\ UNCHANGED <<logLevel, arg, result, minGoVersion, list, entries,
                   pc, artefacts, files, alias, updates, report,
                   ret, bs, j>>

\* the artefact is loaded and recorded; list mode or nothing to update
LoadOnly ==
    /\ pc = "loop" /\ i <= Len(entries)
    /\ Present(entries[i])
    /\ ~TooOld(entries[i].Info)
    /\ \E res \in Responses(entries[i].Info) :
          LET r == NewArtefact(<<entries[i].Info>>, res) IN
          /\ r.err = Nil
          /\ SkipUpdate(list, r.a)
          /\ artefacts' = Append(artefacts, r.a)
          /\ visited' = Append(visited, Visit(res, "loaded"))
    /\ calls' = Append(calls, Call("GET", <<>>, Endpoint(entries[i].Info)))
    /\ logs' = Append(logs, Log("INFO", "loaded artefact"))
    /\ i' = i + 1
    /\ UNCHANGED <<logLevel, arg, result, minGoVersion, list, entries,
                   pc, files, alias, updates, report, ret, bs, j>>

\* the artefact is loaded and recorded, and its Update is called
LoadAndUpdate ==
    /\ pc = "loop" /\ i <= Len(entries)
    /\ Present(entries[i])
    /\ ~TooOld(entries[i].Info)
    /\ \E res \in Responses(entries[i].Info) :
          LET r == NewArtefact(<<entries[i].Info>>, res) IN
          /\ r.err = Nil
          /\ ~SkipUpdate(list, r.a)
          /\ artefacts' = Append(artefacts, r.a)
          /\ visited' = Append(visited, Visit(res, "loaded"))
          /\ pc' = IF r.a.kind = "goToolchain" THEN "install" ELSE "binary.Update"
    /\ calls' = Append(calls, Call("GET", <<>>, Endpoint(entries[i].Info)))
    /\ logs' = Append(logs, Log("INFO", "loaded artefact"))
    /\ updates' = Append(updates, [i |-> i, files |-> files, alias |-> alias,
                                  steps |-> <<>>, ret |-> None])
    /\ UNCHANGED <<logLevel, arg, result, minGoVersion, list, entries,
                   i, files, alias, report, ret, bs, j>>

\* the mutant calls Update of the same artefact once more after an error
ReturnedRetrying(steps, err) ==
    IF err # Nil /\ Cardinality({n \in 1..Len(updates) : updates[n].i = i}) < 2
    THEN /\ updates' = Append([updates EXCEPT ![Len(updates)].steps = steps,
                                              ![Len(updates)].ret = err],
                              [updates[Len(updates)] EXCEPT !.steps = <<>>])
         /\ logs' = Append(logs, Log("ERROR", "installing target version failed"))
         /\ pc' = IF Cur.kind = "goToolchain" THEN "install" ELSE "binary.Update"
         /\ i' = i
    ELSE /\ updates' = [updates EXCEPT ![Len(updates)].steps = steps,
                                      ![Len(updates)].ret = err]
         /\ logs' = Append(logs, IF err = Nil THEN Log("INFO", "updated artefact")
                                 ELSE Log("ERROR", "installing target version failed"))
         /\ pc' = "loop"
         /\ i' = i + 1

\* Update returned err (Nil or not): Main logs it and goes to the next entry
Returned(steps, err) ==
    /\ updates' = [updates EXCEPT ![Len(updates)].steps = steps,
                                  ![Len(updates)].ret = err]
    /\ logs' = Append(logs, IF err = Nil THEN Log("INFO", "updated artefact")
                            ELSE Log("ERROR", "installing target version failed"))
    /\ pc' = "loop"
    /\ i' = i + 1

\* a step of goToolchain.Update ended with err
AfterStep(step, err) ==
    LET steps == Append(updates[Len(updates)].steps, [step |-> step, err |-> err])
    IN  IF Aborts(step, err) THEN Returned(steps, err)
        ELSE IF StepNo(step) = Len(Steps) THEN Returned(steps, Nil)
        ELSE /\ updates' = [updates EXCEPT ![Len(updates)].steps = steps]
             /\ pc' = Steps[StepNo(step) + 1]
             /\ UNCHANGED <<logs, i>>

\* binary.Update: install(b.InstallPath(), b.TargetVersion())
BinaryUpdate ==
    /\ pc = "binary.Update"
    /\ \E err \in RunErrors :
          Returned(<<[step |-> "install", err |-> err]>>, err)
    /\ calls' = Append(calls, install(InstallPath(Cur), TargetVersion(Cur)))
    /\ UNCHANGED <<logLevel, arg, result, minGoVersion, list, entries,
                   artefacts, files, alias, visited, report, ret,
                   bs, j>>

\* step 1: install(b.InstallPath(), "latest")
TcInstall ==
    /\ pc = "install"
    /\ \E err \in RunErrors :
          /\ AfterStep("install", err)
          /\ files' = IF err = Nil THEN files \cup {Last(InstallPath(Cur))} ELSE files
    /\ calls' = Append(calls, install(InstallPath(Cur), "latest"))
    /\ UNCHANGED <<logLevel, arg, result, minGoVersion, list, entries,
                   artefacts, alias, visited, report, ret, bs, j>>

\* step 2: exec.Command(b.TargetVersion(), "download").Run()
TcDownload ==
    /\ pc = "download"
    /\ \E err \in RunErrors : AfterStep("download", err)
    /\ calls' = Append(calls, Call("run", <<TargetVersion(Cur)>>, "download"))
    /\ UNCHANGED <<logLevel, arg, result, minGoVersion, list, entries,
                   artefacts, files, alias, visited, report, ret,
                   bs, j>>

\* step 3: os.Remove(filepath.Join(goBin, b.installedVersion))
TcRemoveOld ==
    /\ pc = "removeOld"
    /\ \E err \in RemoveErrors(Cur.installedVersion \in files) :
          /\ AfterStep("removeOld", err)
          /\ files' = IF err = Nil THEN files \ {Cur.installedVersion} ELSE files
    /\ calls' = Append(calls, Call("remove", <<"$GOBIN", Cur.installedVersion>>, ""))
    /\ UNCHANGED <<logLevel, arg, result, minGoVersion, list, entries,
                   artefacts, alias, visited, report, ret, bs, j>>

\* step 4: os.Remove(filepath.Join(goBin, "go"))
TcRemoveAlias ==
    /\ pc = "removeAlias"
    /\ \E err \in RemoveErrors(alias # None) :
          /\ AfterStep("removeAlias", err)
          /\ alias' = IF err = Nil THEN None ELSE alias
    /\ calls' = Append(calls, Call("remove", <<"$GOBIN", "go">>, ""))
    /\ UNCHANGED <<logLevel, arg, result, minGoVersion, list, entries,
                   artefacts, files, visited, report, ret, bs, j>>

\* mutant of TcSymlink: the alias is made to point at the installed version
TcSymlinkToInstalled ==
    /\ pc = "symlink"
    /\ \E err \in SymlinkErrors(alias # None) :
          /\ AfterStep("symlink", err)
          /\ alias' = IF err = Nil THEN Cur.installedVersion ELSE alias
    /\ calls' = Append(calls, Call("symlink", <<"$GOBIN", "go">>, Cur.installedVersion))
    /\ UNCHANGED <<logLevel, arg, result, minGoVersion, list, entries,
                   artefacts, files, visited, report, ret, bs, j>>

\* step 5: os.Symlink(filepath.Join(goBin, b.targetVersion), filepath.Join(goBin, "go"))
TcSymlink ==
    /\ pc = "symlink"
    /\ \E err \in SymlinkErrors(alias # None) :
          /\ AfterStep("symlink", err)
          /\ alias' = IF err = Nil THEN Cur.targetVersion ELSE alias
    /\ calls' = Append(calls, Call("symlink", <<"$GOBIN", "go">>, Cur.targetVersion))
    /\ UNCHANGED <<logLevel, arg, result, minGoVersion, list, entries,
                   artefacts, files, visited, report, ret, bs, j>>

\* the mutant leaves out the artefacts that are up to date
printArtefactsOutdated(as) ==
    LET outdated == SelectSeq(as, NeedsUpdate)
    IN  <<[program |-> <<"Program">>, installed |-> "Installed Version",
           latest |-> "Latest Version"]>> \o
        [k \in 1..Len(outdated) |->
            [program |-> InstallPath(outdated[k]),
             installed |-> InstalledVersion(outdated[k]),
             latest |-> TargetVersion(outdated[k])]]

\* the rows printArtefacts hands to tablePrint
printArtefacts(as) ==
    <<[program |-> <<"Program">>, installed |-> "Installed Version",
       latest |-> "Latest Version"]>> \o
    [k \in 1..Len(as) |->
        [program |-> InstallPath(as[k]), installed |-> InstalledVersion(as[k]),
         latest |-> TargetVersion(as[k])]]

\* the loop is over: `if list { printArtefacts(artefacts) }; return nil`
Finish ==
    /\ pc = "loop" /\ i > Len(entries)
    /\ report' = IF list THEN printArtefacts(artefacts) ELSE None
    /\ ret' = Nil
    /\ pc' = "done"
    /\ UNCHANGED <<logLevel, arg, result, minGoVersion, list, entries,
                   i, artefacts, files, alias, visited, updates,
                   calls, logs, bs, j>>

Next ==
    \/ Vanished
    \/ Reject
    \/ LoadFailed
    \/ LoadOnly
    \/ LoadAndUpdate
    \/ BinaryUpdate
    \/ TcInstall
    \/ TcDownload
    \/ TcRemoveOld
    \/ TcRemoveAlias
    \/ TcSymlink
    \/ Finish

Spec == Init /\ [][Next]_vars

(***************************************************************************)
(* The earlier orchestrator: list() collects every binary, then update()   *)
(* installs the outdated ones.                                             *)
(***************************************************************************)
preserveSettings == <<"-tags">>

Contains(seq, x) == \E k \in 1..Len(seq) : seq[k] = x

\* latest: the status code is not looked at
latest(module, res) ==
    IF res.err THEN [err |-> "latest: transport error", version |-> ""]
    ELSE IF res.decodeErr THEN [err |-> "latest: decode error", version |-> ""]
    ELSE [err |-> Nil, version |-> res.Version]

RECURSIVE preserved(_)
\* the settings whose key is in preserveSettings, as "key=value" pairs
preserved(settings) ==
    IF settings = <<>> THEN <<>>
    ELSE (IF Contains(preserveSettings, settings[1].Key)
          THEN <<settings[1]>> ELSE <<>>) \o preserved(Tail(settings))

\* inspectBinary, after buildinfo.ReadFile
inspectBinary(name, info, res) ==
    LET l == latest(info.Main.Path, res) IN
    [err |-> IF StrLess(info.GoVersion, minGoVersion)
             THEN "go version too old to update" ELSE l.err,
     b |-> [name |-> name, pkg |-> info.Main.Path, installPath |-> info.Path,
            installedVersion |-> info.Main.Version, targetVersion |-> l.version,
            args |-> preserved(info.Settings)]]

needsBump(b) == b.installedVersion # b.targetVersion

LegacyInit ==
    /\ logLevel = LevelError
    /\ arg = None
    /\ result = None
    /\ minGoVersion \in MinGoVersions
    /\ list \in BOOLEAN
    /\ entries \in Listings
    /\ i = 1
    /\ pc = "list"
    /\ artefacts = <<>>
    /\ files = {}
    /\ alias = None
    /\ visited = <<>>
    /\ updates = <<>>
    /\ calls = <<>>
    /\ logs = <<>>
    /\ report = None
    /\ ret = None
    /\ bs = <<>>
    /\ j = 1

\* list(): inspectBinary fails (too old, or latest failed): warned and skipped
LegacySkip ==
    /\ pc = "list" /\ i <= Len(entries)
    /\ \/ /\ StrLess(entries[i].Info.GoVersion, minGoVersion)
          /\ visited' = Append(visited, Visit(NoResponse, "rejected"))
          /\ UNCHANGED calls
       \/ /\ ~StrLess(entries[i].Info.GoVersion, minGoVersion)
          /\ \E res \in ProxyResponses :
                /\ inspectBinary(entries[i].Name, entries[i].Info, res).err # Nil
                /\ visited' = Append(visited, Visit(res, "failed"))
          /\ calls' = Append(calls, Call("GET", <<>>, "proxy.golang.org"))
    /\ logs' = Append(logs, Log("WARN", "unable to inspect binary, skipping"))
    /\ i' = i + 1
    /\ UNCHANGED <<logLevel, arg, result, minGoVersion, list, entries,
                   pc, artefacts, files, alias, updates, report,
                   ret, bs, j>>

\* list(): the binary is inspected and appended
LegacyCollect ==
    /\ pc = "list" /\ i <= Len(entries)
    /\ ~StrLess(entries[i].Info.GoVersion, minGoVersion)
    /\ \E res \in ProxyResponses :
          LET r == inspectBinary(entries[i].Name, entries[i].Info, res) IN
          /\ r.err = Nil
          /\ bs' = Append(bs, r.b)
          /\ visited' = Append(visited, Visit(res, "loaded"))
    /\ calls' = Append(calls, Call("GET", <<>>, "proxy.golang.org"))
    /\ i' = i + 1
    /\ UNCHANGED <<logLevel, arg, result, minGoVersion, list, entries,
                   pc, artefacts, files, alias, updates, logs,
                   report, ret, j>>

\* list() returned: Main prints the table (list) or update() starts its loop
LegacyListed ==
    /\ pc = "list" /\ i > Len(entries)
    /\ IF list
       THEN /\ report' = bs
            /\ ret' = Nil
            /\ pc' = "done"
       ELSE /\ pc' = "update"
            /\ UNCHANGED <<report, ret>>
    /\ UNCHANGED <<logLevel, arg, result, minGoVersion, list, entries,
                   i, artefacts, files, alias, visited, updates,
                   calls, logs, bs, j>>

\* update(): `if !b.needsBump() { continue }`
LegacyUpToDate ==
    /\ pc = "update" /\ j <= Len(bs)
    /\ ~needsBump(bs[j])
    /\ j' = j + 1
    /\ UNCHANGED <<logLevel, arg, result, minGoVersion, list, entries,
                   i, pc, artefacts, files, alias, visited,
                   updates, calls, logs, report, ret, bs>>

\* update(): execUpdate(b.packageVersion()); its error is returned at once
LegacyExecUpdate ==
    /\ pc = "update" /\ j <= Len(bs)
    /\ needsBump(bs[j])
    /\ \E err \in RunErrors :
          /\ updates' = Append(updates,
                 [i |-> j, files |-> files, alias |-> alias,
                  steps |-> <<[step |-> "install", err |-> err]>>, ret |-> err])
          /\ IF err # Nil
             THEN ret' = "update: exit status 1" /\ pc' = "done" /\ UNCHANGED j
             ELSE j' = j + 1 /\ UNCHANGED <<ret, pc>>
    /\ calls' = Append(calls, [op |-> "install", i |-> j, flags |-> <<>>,
                               path |-> bs[j].installPath,
                               arg |-> bs[j].targetVersion])
    /\ UNCHANGED <<logLevel, arg, result, minGoVersion, list, entries,
                   i, artefacts, files, alias, visited, logs,
                   report, bs>>

\* update(): the loop is over, `return nil`
LegacyReturn ==
    /\ pc = "update" /\ j > Len(bs)
    /\ ret' = Nil
    /\ pc' = "done"
    /\ UNCHANGED <<logLevel, arg, result, minGoVersion, list, entries,
                   i, artefacts, files, alias, visited, updates,
                   calls, logs, report, bs, j>>

LegacyNext ==
    \/ LegacySkip
    \/ LegacyCollect
    \/ LegacyListed
    \/ LegacyUpToDate
    \/ LegacyExecUpdate
    \/ LegacyReturn

SpecLegacy == LegacyInit /\ [][LegacyNext]_vars

(***************************************************************************)
(* Properties.                                                             *)
(***************************************************************************)
\* every entry is visited once, in order: visited[k] is about entries[k]
Loaded(k) == k \in 1..Len(visited) /\ visited[k].outcome = "loaded"

\* the artefact made for entry k
ArtefactAt(k) == artefacts[Cardinality({m \in 1..k : Loaded(m)})]

IsToolchainUpdate(u) == entries[u.i].Info.Main.Path = goModule

Succeeded(s) ==
    s.err = Nil \/ (s.step \in {"removeOld", "removeAlias"} /\ s.err = ErrNotExist)

\* the calls Update made for entry k
UpdateCalls(k) == SelectSeq(calls, LAMBDA c : c.i = k /\ c.op # "GET")

\* Update for entry u.i has just returned and nothing has happened since
JustReturned(u) ==
    /\ u = updates[Len(updates)]
    /\ u.ret # None
    /\ pc = "loop"
    /\ i = u.i + 1

\* C1: the toolchain Update runs install, download, remove old binary, remove
\* alias, create alias in this order; a step runs only after every earlier
\* step succeeded; the error returned is that of the first failing step, which
\* is the last step run; success means all five ran.
C1_StepOrder ==
    \A n \in 1..Len(updates) :
        LET u == updates[n]
            order == <<"install", "download", "removeOld", "removeAlias", "symlink">>
            ops == <<"install", "run", "remove", "remove", "symlink">>
            made == UpdateCalls(u.i)
        IN  IsToolchainUpdate(u) =>
              /\ Len(u.steps) <= 5
              /\ \A k \in 1..Len(u.steps) :
                    /\ u.steps[k].step = order[k]
                    /\ k < Len(u.steps) => Succeeded(u.steps[k])
              /\ Len(made) = Len(u.steps)
              /\ \A k \in 1..Len(made) : k <= 5 /\ made[k].op = ops[k]
              /\ u.ret = Nil =>
                    Len(u.steps) = 5 /\ Len(made) = 5 /\ Succeeded(u.steps[5])
              /\ u.ret \notin {Nil, None} =>
                    /\ Len(made) = Len(u.steps)
                    /\ ~Succeeded(u.steps[Len(u.steps)])
                    /\ u.ret = u.steps[Len(u.steps)].err
              /\ u.ret = None => \A k \in 1..Len(u.steps) : Succeeded(u.steps[k])

\* a toolchain Update stopped at step 3 with an error other than not-exists
C1_Witness ==
    \E n \in 1..Len(updates) :
        /\ IsToolchainUpdate(updates[n])
        /\ Len(updates[n].steps) = 3
        /\ updates[n].ret = "EACCES"

\* C2: when install or download fails in a toolchain Update, no removal and
\* no symlink call is made, and when Update returns the old versioned binary
\* and the alias are as they were when it was called.
C2_EarlyFailureTouchesNothing ==
    \A n \in 1..Len(updates) :
        LET u == updates[n]
            old == InstalledVersion(ArtefactAt(u.i))
        IN  (IsToolchainUpdate(u) /\ \E k \in 1..Len(u.steps) :
                                        k <= 2 /\ u.steps[k].err # Nil) =>
              /\ u.ret \notin {Nil, None}
              /\ Len(u.steps) <= 2
              /\ \A k \in 1..Len(calls) :
                    calls[k].i = u.i => calls[k].op \notin {"remove", "symlink"}
              /\ JustReturned(u) =>
                    /\ alias = u.alias
                    /\ (old \in files) <=> (old \in u.files)

\* a toolchain Update has just returned the error of a failed download, with
\* an old binary and an alias in place
C2_Witness ==
    \E n \in 1..Len(updates) :
        /\ IsToolchainUpdate(updates[n])
        /\ JustReturned(updates[n])
        /\ Len(updates[n].steps) = 2
        /\ updates[n].ret = "exit status 1"
        /\ alias # None
        /\ InstalledVersion(ArtefactAt(updates[n].i)) \in files

Working(fs, al) == al # None /\ al \in fs

\* C3 as claimed: whenever a toolchain Update returns, with success or with
\* the error of any step, a system that had a working alias still has one.
C3_Original ==
    \A n \in 1..Len(updates) :
        LET u == updates[n]
        IN  (IsToolchainUpdate(u) /\ JustReturned(u) /\ Working(u.files, u.alias))
              => Working(files, alias)

\* C3 amended: when a toolchain Update returns success the alias points at the
\* existing binary of the target version; when it returns the error of step
\* 1, 2 or 3, a working alias is unchanged and still working.
C3_WorkingToolchain ==
    \A n \in 1..Len(updates) :
        LET u == updates[n]
            a == ArtefactAt(u.i)
        IN  (IsToolchainUpdate(u) /\ JustReturned(u)) =>
              /\ u.ret = Nil =>
                    alias = TargetVersion(a) /\ Working(files, alias)
              /\ (u.ret # Nil /\ Len(u.steps) <= 3 /\ Working(u.files, u.alias)) =>
                    alias = u.alias /\ Working(files, alias)

\* a toolchain Update has just returned success on a system whose alias
\* pointed at the old binary
C3_Witness ==
    \E n \in 1..Len(updates) :
        LET u == updates[n]
        IN  /\ IsToolchainUpdate(u)
            /\ JustReturned(u)
            /\ u.ret = Nil
            /\ Working(u.files, u.alias)
            /\ u.alias = InstalledVersion(ArtefactAt(u.i))

\* C4: after a toolchain Update that returned no error, the alias points at
\* the versioned binary named by the target version, that binary exists, and
\* the versioned binary named by the installed version is absent.
C4_AliasAtTarget ==
    \A n \in 1..Len(updates) :
        LET u == updates[n]
            a == ArtefactAt(u.i)
        IN  (IsToolchainUpdate(u) /\ JustReturned(u) /\ u.ret = Nil) =>
              /\ alias = TargetVersion(a)
              /\ TargetVersion(a) \in files
              /\ InstalledVersion(a) \notin files

\* a toolchain Update has just returned success after removing the old
\* binary and replacing an alias that pointed elsewhere
C4_Witness ==
    \E n \in 1..Len(updates) :
        LET u == updates[n]
            a == ArtefactAt(u.i)
        IN  /\ IsToolchainUpdate(u)
            /\ JustReturned(u)
            /\ u.ret = Nil
            /\ InstalledVersion(a) \in u.files
            /\ u.alias \notin {None, TargetVersion(a)}

\* C5 as claimed, for the list-then-update orchestrator: in update mode the
\* run returns no error, and every collected binary that needs an update had
\* its install invoked, whether or not an earlier install failed.
C5_Original ==
    (pc = "done" /\ ~list) =>
        /\ ret = Nil
        /\ \A k \in 1..Len(bs) :
              needsBump(bs[k]) =>
                  \E c \in 1..Len(calls) : calls[c].op = "install" /\ calls[c].i = k

\* C6: in list mode Update is never called and no install, download, removal
\* or symlink call is made; the loaded artefacts are only recorded.
C6_ListNeverUpdates ==
    list =>
        /\ updates = <<>>
        /\ \A c \in 1..Len(calls) : calls[c].op = "GET"
        /\ pc \in {"loop", "done"}
        /\ Len(artefacts) = Cardinality({k \in 1..Len(visited) : Loaded(k)})

\* a finished list run that recorded an outdated artefact
C6_Witness ==
    /\ list
    /\ pc = "done"
    /\ \E k \in 1..Len(artefacts) :
          InstalledVersion(artefacts[k]) # TargetVersion(artefacts[k])

\* C7: in update mode Update is called, and an install invoked, only for an
\* artefact whose NeedsUpdate() is true; an artefact whose installed version
\* equals its target version gets no call at all.
C7_UpdateOnlyWhenNeeded ==
    ~list =>
        /\ \A n \in 1..Len(updates) :
              /\ Loaded(updates[n].i)
              /\ NeedsUpdate(ArtefactAt(updates[n].i))
        /\ \A k \in 1..Len(visited) :
              (Loaded(k) /\ InstalledVersion(ArtefactAt(k)) = TargetVersion(ArtefactAt(k)))
                  => UpdateCalls(k) = <<>>

\* a finished update run with an up to date binary (installed v1.0.0, the
\* proxy answered v1.0.0) and no install
C7_Witness ==
    /\ ~list
    /\ pc = "done"
    /\ \E k \in 1..Len(visited) :
          /\ Loaded(k)
          /\ ArtefactAt(k).kind = "binary"
          /\ InstalledVersion(ArtefactAt(k)) = "v1.0.0"
          /\ TargetVersion(ArtefactAt(k)) = "v1.0.0"
          /\ UpdateCalls(k) = <<>>

\* the installed and the target version as the build info and the response
\* of the version endpoint give them
InstalledOf(bi) == IF bi.Main.Path = goModule THEN Last(bi.Path) ELSE bi.Main.Version

\* the text of a body before its first line feed, all of it without one
UpToNewline(body) ==
    LET nl == {p \in 1..Len(body) : body[p] = NL}
        cut == IF nl = {} THEN Len(body)
               ELSE (CHOOSE p \in nl : \A q \in nl : p <= q) - 1
    IN  String(SubSeq(body, 1, cut))

TargetOf(bi, res) ==
    IF bi.Main.Path = goModule THEN UpToNewline(res.body) ELSE res.Version

\* C8: for both variants NeedsUpdate() is true exactly when the installed and
\* the target version string differ literally, at any time after the artefact
\* was made, before and after its Update; and in update mode Update is called
\* exactly for the artefacts whose strings differ.
C8_NeedsUpdateLiteral ==
    \A k \in 1..Len(visited) :
        Loaded(k) =>
            LET differ == InstalledOf(entries[k].Info) #
                              TargetOf(entries[k].Info, visited[k].res)
            IN  /\ NeedsUpdate(ArtefactAt(k)) <=> differ
                /\ ~list => (differ <=> \E n \in 1..Len(updates) : updates[n].i = k)

\* an Update has returned success for an artefact whose versions are equal as
\* semantic versions and differ as strings, and for a toolchain
C8_Witness ==
    /\ \E n \in 1..Len(updates) :
          /\ updates[n].ret = Nil
          /\ TargetVersion(ArtefactAt(updates[n].i)) = "v1.0.0+incompatible"
          /\ NeedsUpdate(ArtefactAt(updates[n].i))
    /\ \E n \in 1..Len(updates) :
          /\ updates[n].ret = Nil
          /\ IsToolchainUpdate(updates[n])
          /\ NeedsUpdate(ArtefactAt(updates[n].i))

RECURSIVE NumLess(_, _)
\* numeric, component by component; a missing component counts as 0
NumLess(a, b) ==
    IF a = <<>> /\ b = <<>> THEN FALSE
    ELSE LET x == IF a = <<>> THEN 0 ELSE a[1]
             y == IF b = <<>> THEN 0 ELSE b[1]
         IN  IF x # y THEN x < y
             ELSE NumLess(IF a = <<>> THEN a ELSE Tail(a),
                          IF b = <<>> THEN b ELSE Tail(b))

\* a release is lower than another by its numeric components
NumericallyLower(v, w) == NumLess(Components(v), Components(w))

\* C9 as claimed: every entry whose toolchain version is numerically lower
\* than the minimum is rejected: no version lookup, no artefact, no Update.
C9_Original ==
    \A k \in 1..Len(visited) :
        (Present(entries[k]) /\ NumericallyLower(entries[k].Info.GoVersion, minGoVersion)) =>
            /\ visited[k].outcome = "rejected"
            /\ \A c \in 1..Len(calls) : calls[c].i # k

\* C10: an entry whose artefact could not be made gets an error log record,
\* no artefact (so no report row), no Update and no call but the lookup; the
\* loop goes on, so a finished run has visited every entry and its report
\* has the header and one row per loaded artefact.
C10_FailedLoadSkipped ==
    /\ \A k \in 1..Len(visited) :
          visited[k].outcome = "failed" =>
              /\ \E l \in 1..Len(logs) :
                    logs[l] = [i |-> k, level |-> "ERROR", msg |-> "loading artefact failed"]
              /\ \A n \in 1..Len(updates) : updates[n].i # k
              /\ \A c \in 1..Len(calls) : calls[c].i = k => calls[c].op = "GET"
    /\ Len(artefacts) = Cardinality({k \in 1..Len(visited) : Loaded(k)})
    /\ pc = "done" =>
          /\ ret = Nil
          /\ Len(visited) = Len(entries)
          /\ list => Len(report) = 1 + Cardinality({k \in 1..Len(visited) : Loaded(k)})

\* a finished update run whose first entry failed to load and whose second
\* entry was loaded and updated
C10_Witness ==
    /\ pc = "done"
    /\ ~list
    /\ Len(visited) = 2
    /\ visited[1].outcome = "failed"
    /\ Loaded(2)
    /\ \E n \in 1..Len(updates) : updates[n].i = 2 /\ updates[n].ret = Nil

\* the version endpoint answered and its answer can be used: the transport
\* worked, the status is 2xx and the body was read (and, for the module
\* proxy, decoded)
Resolved(bi, res) ==
    /\ ~res.err
    /\ res.StatusCode \in 200..299
    /\ IF bi.Main.Path = goModule THEN ~res.readErr ELSE ~res.decodeErr

\* C11: for both variants an artefact is made only if the version endpoint
\* answered usably: after a transport error, a status that is not 2xx or an
\* unusable body no artefact exists, least of all one whose target version
\* comes from that answer.
C11_Original ==
    \A k \in 1..Len(visited) : Loaded(k) => Resolved(entries[k].Info, visited[k].res)

\* C12: Update of a module binary runs the installer exactly once, for the
\* main package path of the build info (not the module root) at the target
\* version the proxy answered when the artefact was made.
C12_BinaryInstallOnce ==
    \A n \in 1..Len(updates) :
        LET u == updates[n]
            bi == entries[u.i].Info
            cs == UpdateCalls(u.i)
        IN  ~IsToolchainUpdate(u) =>
              IF u.ret = None THEN cs = <<>>
              ELSE /\ Len(cs) = 1
                   /\ cs[1].op = "install"
                   /\ cs[1].path = bi.Path
                   /\ cs[1].arg = visited[u.i].res.Version

\* a module binary whose main package is not the module root was updated
C12_Witness ==
    \E n \in 1..Len(updates) :
        LET u == updates[n]
            bi == entries[u.i].Info
        IN  /\ ~IsToolchainUpdate(u)
            /\ u.ret = Nil
            /\ bi.Path # bi.Main.Path
            /\ UpdateCalls(u.i)[1].path = bi.Path
            /\ UpdateCalls(u.i)[1].arg = "v1.2.0"

\* C13: Update of a module binary hands to the install command every build
\* setting of the binary whose key is on the preserve list (-tags=netgo for
\* example), as key=value.
C13_Original ==
    \A n \in 1..Len(updates) :
        LET u == updates[n]
            settings == entries[u.i].Info.Settings
            cs == UpdateCalls(u.i)
        IN  (~IsToolchainUpdate(u) /\ u.ret # None) =>
              \A s \in 1..Len(settings) :
                  Contains(preserveSettings, settings[s].Key) =>
                      \E c \in 1..Len(cs) : \E f \in 1..Len(cs[c].flags) :
                          /\ cs[c].op = "install"
                          /\ cs[c].flags[f] = settings[s].Key \o "=" \o settings[s].Value

\* C14: in the toolchain Update, when removing the old binary (step 3) or the
\* alias (step 4) fails because the file does not exist, the step counts as
\* done and the next step runs; on any other removal error Update returns
\* that error and the alias is not created (step 5 does not run).
C14_RemovalErrors ==
    \A n \in 1..Len(updates) :
        LET u == updates[n]
        IN  \A k \in 1..Len(u.steps) :
               LET s == u.steps[k]
               IN  s.step \in {"removeOld", "removeAlias"} =>
                     /\ s.err = ErrNotExist =>
                           IF Len(u.steps) = k
                           THEN u.ret = None /\ pc = Steps[StepNo(s.step) + 1]
                           ELSE u.steps[k + 1].step = Steps[StepNo(s.step) + 1]
                     /\ s.err \notin {Nil, ErrNotExist} =>
                           /\ u.ret = s.err
                           /\ Len(u.steps) = k
                           /\ \A c \in 1..Len(calls) :
                                 calls[c].i = u.i => calls[c].op # "symlink"

\* an Update that found neither the old binary nor the alias and went on to
\* create the alias, and an Update that a refused removal ended
C14_Witness ==
    /\ \E n \in 1..Len(updates) :
          LET u == updates[n]
          IN  /\ Len(u.steps) = 5
              /\ u.steps[3].err = ErrNotExist
              /\ u.steps[4].err = ErrNotExist
              /\ u.ret = Nil
    /\ \E n \in 1..Len(updates) :
          LET u == updates[n]
          IN  /\ Len(u.steps) = 4
              /\ u.steps[4].err = "EACCES"
              /\ u.ret = "EACCES"

\* the entries an artefact was made for, in the order they were found
LoadedEntries ==
    LET ks == {k \in 1..Len(visited) : Loaded(k)}
    IN  [m \in 1..Cardinality(ks) |->
            CHOOSE k \in ks : Cardinality({x \in ks : x <= k}) = m]

\* the report row of entry k, from its build info and the endpoint's answer
RowOf(k) ==
    LET bi == entries[k].Info
        target == TargetOf(bi, visited[k].res)
    IN  [program |-> IF bi.Main.Path = goModule THEN goModule \o <<target>> ELSE bi.Path,
         installed |-> InstalledOf(bi),
         latest |-> target]

\* C15: a finished list run has reported the header row followed by one row
\* {install path, installed version, target version} for each entry an
\* artefact was made for, in the order of discovery, and no row for any
\* other entry; an update run reports nothing, and nothing is reported
\* before the loop is over.
C15_ListReport ==
    IF list /\ pc = "done"
    THEN /\ Len(report) = 1 + Len(LoadedEntries)
         /\ report[1] = [program |-> <<"Program">>, installed |-> "Installed Version",
                         latest |-> "Latest Version"]
         /\ \A m \in 1..Len(LoadedEntries) : report[m + 1] = RowOf(LoadedEntries[m])
    ELSE report = None

\* a finished list run over two entries: the first has a row that shows it
\* up to date, the second was rejected or failed and has none
C15_Witness ==
    /\ pc = "done"
    /\ list
    /\ Len(visited) = 2
    /\ visited[1].outcome = "loaded"
    /\ visited[2].outcome # "loaded"
    /\ Len(report) = 2
    /\ report[2].installed = report[2].latest

(***************************************************************************)
(* The functions studied on their own.  Each of the specifications below   *)
(* draws an input into arg, applies one function of the program to it and  *)
(* leaves what it returned in result; the orchestrator does not run.       *)
(***************************************************************************)
orchestrator ==
    <<logLevel, minGoVersion, list, entries, i, artefacts, files, alias, visited,
      updates, calls, logs, report, ret, bs, j>>

NotRunning ==
    /\ logLevel = LevelError
    /\ minGoVersion = GoRelease(<<1, 18>>)
    /\ list = FALSE
    /\ entries = <<>>
    /\ i = 1
    /\ artefacts = <<>>
    /\ files = {}
    /\ alias = None
    /\ visited = <<>>
    /\ updates = <<>>
    /\ calls = <<>>
    /\ logs = <<>>
    /\ report = None
    /\ ret = None
    /\ bs = <<>>
    /\ j = 1

\* the sequences over S of at most n elements
UpTo(S, n) == UNION {[1..m -> S] : m \in 0..n}

(***************************************************************************)
(* artefact.go: escapeModuleName.  A string is the sequence of its runes.  *)
(***************************************************************************)
MaxLen == 3

UpperCase == <<"A", "B">>
LowerCase == <<"a", "b">>

\* the runes a module path is drawn from
Runes == {"a", "b", "A", "B", "/", "!"}

\* unicode.IsUpper
IsUpper(r) == \E k \in 1..Len(UpperCase) : UpperCase[k] = r

\* unicode.ToLower
ToLower(r) ==
    IF IsUpper(r) THEN LowerCase[CHOOSE k \in 1..Len(UpperCase) : UpperCase[k] = r] ELSE r

\* the mutant writes the rune as it is after the exclamation mark
escapeRuneKeepingCase(r) == IF IsUpper(r) THEN <<"!", r>> ELSE <<r>>

\* the body of the loop: what is written to the builder for rune r
escapeRune(r) == IF IsUpper(r) THEN <<"!", ToLower(r)>> ELSE <<r>>

\* `for _, r := range in { ... }; return out.String()`
RECURSIVE escapeModuleName(_)
escapeModuleName(in) ==
    IF in = <<>> THEN <<>> ELSE escapeRune(Head(in)) \o escapeModuleName(Tail(in))

EscapeInit ==
    /\ arg \in UpTo(Runes, MaxLen)
    /\ result = None
    /\ pc = "escapeModuleName"
    /\ NotRunning

Escape ==
    /\ pc = "escapeModuleName"
    /\ result' = escapeModuleName(arg)
    /\ pc' = "returned"
    /\ UNCHANGED <<arg, orchestrator>>

EscapeNext == Escape

SpecEscape == EscapeInit /\ [][EscapeNext]_vars

\* proxy protocol: an exclamation mark and a lower-case letter stand for the
\* upper-case letter
RECURSIVE Unescape(_)
Unescape(s) ==
    IF s = <<>> THEN <<>>
    ELSE IF Head(s) = "!" /\ Len(s) >= 2
                          /\ \E k \in 1..Len(LowerCase) : LowerCase[k] = s[2]
         THEN <<UpperCase[CHOOSE k \in 1..Len(LowerCase) : LowerCase[k] = s[2]]>>
              \o Unescape(SubSeq(s, 3, Len(s)))
         ELSE <<Head(s)>> \o Unescape(Tail(s))

OnlyLetters(s) ==
    \A p \in 1..Len(s) :
        \E k \in 1..Len(UpperCase) : s[p] = UpperCase[k] \/ s[p] = LowerCase[k]

\* C16: escapeModuleName writes for every upper-case letter an exclamation
\* mark and the lower-case letter, and every other rune as it is; so a path
\* of letters only is got back by unescaping, the escaped path has no
\* upper-case letter, and escaping the escaped path changes nothing.
C16_EscapeModuleName ==
    pc = "returned" =>
        /\ Len(result) = Len(arg) + Cardinality({q \in 1..Len(arg) : IsUpper(arg[q])})
        /\ \A p \in 1..Len(arg) :
              LET at == p + Cardinality({q \in 1..(p - 1) : IsUpper(arg[q])})
              IN  IF arg[p] \in {"A", "B"}
                  THEN result[at] = "!" /\ result[at + 1] = (IF arg[p] = "A" THEN "a" ELSE "b")
                  ELSE result[at] = arg[p]
        /\ OnlyLetters(arg) => Unescape(result) = arg
        /\ \A p \in 1..Len(result) : result[p] \notin {"A", "B"}
        /\ escapeModuleName(result) = result

\* a path of letters with upper-case ones among them was escaped
C16_Witness ==
    /\ pc = "returned"
    /\ arg = <<"A", "b", "B">>
    /\ result = <<"!", "a", "b", "!", "b">>

\* C17: the target version of a toolchain artefact is the text of the
\* endpoint's answer before its first line feed; what follows is dropped,
\* and an answer without a line feed is taken whole.
C17_FirstLine ==
    \A k \in 1..Len(visited) :
        (Loaded(k) /\ entries[k].Info.Main.Path = goModule) =>
            /\ ArtefactAt(k).targetVersion = UpToNewline(visited[k].res.body)
            /\ (\A p \in 1..Len(visited[k].res.body) : visited[k].res.body[p] # NL) =>
                  ArtefactAt(k).targetVersion = String(visited[k].res.body)

\* a toolchain artefact made from an answer of two lines, and one made from
\* an answer without a line feed
C17_Witness ==
    /\ Len(visited) = 2
    /\ Loaded(1) /\ Loaded(2)
    /\ Len(visited[1].res.body) = 5
    /\ visited[1].res.body[3] = NL
    /\ ArtefactAt(1).targetVersion = "go1.22.0"
    /\ visited[2].res.body = <<"go1.22.0">>
    /\ ArtefactAt(2).targetVersion = "go1.22.0"

(***************************************************************************)
(* The variant that reads the tags of the repository: updateBin picks the  *)
(* target among them.  A version string is kept with what semver's parse   *)
(* makes of it: valid, the numbers major.minor.patch, and pre, 0 for no    *)
(* prerelease and the rank of the prerelease otherwise (rc1 before rc2).   *)
(***************************************************************************)
MaxTags == 3

Version(text, num, pre) == [text |-> text, valid |-> TRUE, num |-> num, pre |-> pre]

Invalid(text) == [text |-> text, valid |-> FALSE, num |-> <<>>, pre |-> 0]

\* the names of the tags ListTags may return
Tags ==
    { Version("v1.2.0", <<1, 2, 0>>, 0),
      Version("v1.3.0-rc1", <<1, 3, 0>>, 1),
      Version("v1.3.0", <<1, 3, 0>>, 0),
      Version("v1.4.0-rc1", <<1, 4, 0>>, 1),
      Invalid("not-a-version") }

\* info.Main.Version of the binary
InstalledVersions ==
    { Version("v1.2.0", <<1, 2, 0>>, 0),
      Version("v1.3.0", <<1, 3, 0>>, 0),
      Version("v0.0.0", <<0, 0, 0>>, 0),
      Invalid("(devel)") }

\* semver.IsValid
IsValid(v) == v.valid

\* semver: compareInt on the three numbers in turn
RECURSIVE compareInts(_, _)
compareInts(x, y) ==
    IF x = <<>> THEN 0
    ELSE IF Head(x) < Head(y) THEN -1
    ELSE IF Head(x) > Head(y) THEN 1
    ELSE compareInts(Tail(x), Tail(y))

\* semver: comparePrerelease; no prerelease is above every prerelease
comparePrerelease(x, y) ==
    IF x = y THEN 0
    ELSE IF x = 0 THEN 1
    ELSE IF y = 0 THEN -1
    ELSE IF x < y THEN -1 ELSE 1

\* semver.Compare: an invalid version is below every valid one
Compare(v, w) ==
    IF ~v.valid /\ ~w.valid THEN 0
    ELSE IF ~v.valid THEN -1
    ELSE IF ~w.valid THEN 1
    ELSE IF compareInts(v.num, w.num) # 0 THEN compareInts(v.num, w.num)
    ELSE comparePrerelease(v.pre, w.pre)

\* `for _, tag := range tags { if semver.Compare(targetVersion, *tag.Name) < 0 {...} }`
RECURSIVE newestTag(_, _)
newestTag(targetVersion, tags) ==
    IF tags = <<>> THEN targetVersion
    ELSE newestTag(IF Compare(targetVersion, Head(tags)) < 0 THEN Head(tags)
                   ELSE targetVersion,
                   Tail(tags))

\* updateBin from the check of the installed version on
updateBin(installed, tags) ==
    IF ~IsValid(installed) \/ Compare(installed, Version("v0.0.0", <<0, 0, 0>>, 0)) = 0
    THEN [err |-> "invalid version installed", targetVersion |-> installed]
    ELSE [err |-> Nil, targetVersion |-> newestTag(installed, tags)]

TagsInit ==
    /\ arg \in [installed : InstalledVersions, tags : UpTo(Tags, MaxTags)]
    /\ result = None
    /\ pc = "updateBin"
    /\ NotRunning

UpdateBin ==
    /\ pc = "updateBin"
    /\ result' = updateBin(arg.installed, arg.tags)
    /\ pc' = "returned"
    /\ UNCHANGED <<arg, orchestrator>>

TagsNext == UpdateBin

SpecTags == TagsInit /\ [][TagsNext]_vars

\* v is a stable release: valid and without prerelease
Stable(v) == v.valid /\ v.pre = 0

\* v is a release before w, by the numbers major.minor.patch
Before(v, w) ==
    \E p \in 1..3 : v.num[p] < w.num[p] /\ \A q \in 1..(p - 1) : v.num[q] = w.num[q]

\* C18: a target version chosen among several tags is never a prerelease or
\* a string that is no semantic version: such tags are skipped, and the
\* target is the newest stable tag.
C18_Original ==
    (pc = "returned" /\ result.err = Nil /\ result.targetVersion # arg.installed) =>
        /\ Stable(result.targetVersion)
        /\ \E t \in 1..Len(arg.tags) : arg.tags[t] = result.targetVersion
        /\ \A t \in 1..Len(arg.tags) :
              Stable(arg.tags[t]) => ~Before(result.targetVersion, arg.tags[t])

\* C19: the entries are handled one after the other: every call made for an
\* entry comes before every call made for a later entry, so the lookup, the
\* construction and the Update of an entry are over before the version of
\* the next one is looked up; only the Update started last can be running,
\* and then no later entry has been touched; no entry's version is looked up
\* twice and Update is called at most once for an artefact.
C19_OneAfterAnother ==
    /\ \A c, d \in 1..Len(calls) : c < d => calls[c].i <= calls[d].i
    /\ \A k \in 1..Len(visited) : visited[k].i = k
    /\ \A n \in 1..Len(updates) :
          /\ updates[n].ret = None =>
                /\ n = Len(updates)
                /\ Len(visited) = updates[n].i
                /\ \A c \in 1..Len(calls) : calls[c].i <= updates[n].i
          /\ \A m \in 1..Len(updates) : updates[m].i = updates[n].i => m = n
    /\ \A c, d \in 1..Len(calls) :
          (calls[c].i = calls[d].i /\ calls[c].op = calls[d].op
             /\ calls[c].op \in {"GET", "install"}) => c = d

\* two entries were updated, the second after the Update of the first failed
C19_Witness ==
    /\ Len(updates) = 2
    /\ updates[1].i = 1 /\ updates[1].ret \notin {None, Nil}
    /\ updates[2].i = 2 /\ updates[2].ret = Nil
    /\ \E c \in 1..Len(calls) : calls[c].i = 1 /\ calls[c].op = "install"
    /\ \E c \in 1..Len(calls) : calls[c].i = 2 /\ calls[c].op = "GET"

(***************************************************************************)
(* ignore.go: the ignore file of $GOBIN.  A line, a pattern and a name are *)
(* sequences of runes.                                                     *)
(***************************************************************************)
MaxLines == 2

\* the lines an ignore file is made of: t*, !tool, !t*, # x, the empty line,
\* " go " and the malformed pattern [
IgnoreLines ==
    { <<"t", "*">>,
      <<"!", "t", "o", "o", "l">>,
      <<"!", "t", "*">>,
      <<"#", " ", "x">>,
      <<>>,
      <<" ", "g", "o", " ">>,
      <<"[">> }

\* the names of the entries of $GOBIN: tool, tidy, go
EntryNames == { <<"t", "o", "o", "l">>, <<"t", "i", "d", "y">>, <<"g", "o">> }

\* outcomes of os.Open of the ignore file
OpenErrors == {Nil, ErrNotExist, "EACCES"}

\* strings.TrimSpace
RECURSIVE TrimSpace(_)
TrimSpace(l) ==
    IF l = <<>> THEN l
    ELSE IF Head(l) = " " THEN TrimSpace(Tail(l))
    ELSE IF l[Len(l)] = " " THEN TrimSpace(SubSeq(l, 1, Len(l) - 1))
    ELSE l

\* filepath.Match reports ErrBadPattern for a pattern with an unclosed [
BadPattern(pattern) == \E p \in 1..Len(pattern) : pattern[p] = "["

\* filepath.Match for patterns of literal runes, ? and *
RECURSIVE Matches(_, _)
Matches(pattern, name) ==
    IF pattern = <<>> THEN name = <<>>
    ELSE IF Head(pattern) = "*"
         THEN \E k \in 0..Len(name) :
                 Matches(Tail(pattern), SubSeq(name, k + 1, Len(name)))
    ELSE IF name = <<>> THEN FALSE
    ELSE IF Head(pattern) = "?" THEN Matches(Tail(pattern), Tail(name))
    ELSE Head(pattern) = Head(name) /\ Matches(Tail(pattern), Tail(name))

Match(pattern, name) ==
    IF BadPattern(pattern) THEN [m |-> FALSE, err |-> "syntax error in pattern"]
    ELSE [m |-> Matches(pattern, name), err |-> Nil]

\* the loop of ignoreFile over the lines left to scan
RECURSIVE scan(_, _, _)
scan(lines, exclude, include) ==
    IF lines = <<>> THEN [exclude |-> exclude, include |-> include]
    ELSE LET l == TrimSpace(Head(lines))
         IN  IF Len(l) = 0 \/ l[1] = "#" THEN scan(Tail(lines), exclude, include)
             ELSE IF l[1] = "!"
                  THEN scan(Tail(lines), exclude, Append(include, l))
                  ELSE scan(Tail(lines), Append(exclude, l), include)

ignoreFile(file) ==
    IF file.err # Nil /\ ~IsNotExist(file.err)
    THEN [exclude |-> <<>>, include |-> <<>>, err |-> "unable to open ignore file"]
    ELSE IF IsNotExist(file.err) THEN [exclude |-> <<>>, include |-> <<>>, err |-> Nil]
    ELSE [exclude |-> scan(file.lines, <<>>, <<>>).exclude,
          include |-> scan(file.lines, <<>>, <<>>).include,
          err |-> Nil]

\* ignore: a pattern that cannot be matched is warned about and passed over
ignore(exclude, include, p) ==
    LET hit(patterns) ==
            \E k \in 1..Len(patterns) :
                Match(patterns[k], p).err = Nil /\ Match(patterns[k], p).m
    IN  IF ~hit(exclude) THEN FALSE
        ELSE IF hit(include) THEN FALSE
        ELSE TRUE

\* the ignore files: absent, unreadable, or of at most MaxLines lines
IgnoreFiles ==
    {[err |-> e, lines |-> <<>>] : e \in OpenErrors \ {Nil}}
        \cup {[err |-> Nil, lines |-> ls] : ls \in UpTo(IgnoreLines, MaxLines)}

IgnoreInit ==
    /\ arg \in [file : IgnoreFiles, name : EntryNames]
    /\ result = [exclude |-> <<>>, include |-> <<>>, err |-> Nil, ignored |-> FALSE]
    /\ pc = "init"
    /\ NotRunning

\* init: excludePatterns, includePatterns, err = ignoreFile(...); an error
\* ends the program
LoadIgnoreFile ==
    /\ pc = "init"
    /\ LET r == ignoreFile(arg.file)
       IN  /\ result' = [result EXCEPT !.exclude = r.exclude, !.include = r.include,
                                       !.err = r.err]
           /\ pc' = IF r.err # Nil THEN "exit" ELSE "loop"
    /\ UNCHANGED <<arg, orchestrator>>

\* Main: `if ignore(excludePatterns, includePatterns, entry.Name()) { continue }`
IgnoreEntry ==
    /\ pc = "loop"
    /\ result' = [result EXCEPT !.ignored = ignore(result.exclude, result.include, arg.name)]
    /\ pc' = "returned"
    /\ UNCHANGED <<arg, orchestrator>>

IgnoreNext == LoadIgnoreFile \/ IgnoreEntry

SpecIgnore == IgnoreInit /\ [][IgnoreNext]_vars

\* the patterns the lines of the file stand for: a line that is neither
\* empty nor a comment excludes, or includes when written !pattern
Patterns(lines, including) ==
    {p \in {IF including THEN Tail(TrimSpace(lines[k])) ELSE TrimSpace(lines[k]) :
                k \in {x \in 1..Len(lines) :
                          /\ TrimSpace(lines[x]) # <<>>
                          /\ TrimSpace(lines[x])[1] # "#"
                          /\ (TrimSpace(lines[x])[1] = "!") = including}} :
        ~BadPattern(p)}

\* C20: the name of an entry is ignored exactly when a pattern of an exclude
\* line matches it and no pattern of an include line does, the pattern of
\* the include line !pattern being pattern: a name that an include line
\* matches is processed although an exclude line matches it too.
C20_Original ==
    pc = "returned" =>
        result.ignored =
            (/\ \E e \in Patterns(arg.file.lines, FALSE) : Matches(e, arg.name)
             /\ ~\E n \in Patterns(arg.file.lines, TRUE) : Matches(n, arg.name))

\* the versioned binary step 3 of the n-th Update removed, if it removed one:
\* the name handed to os.Remove
RemovedBy(n) ==
    IF IsToolchainUpdate(updates[n]) /\ Len(updates[n].steps) >= 3
                                     /\ updates[n].steps[3].err = Nil
    THEN {UpdateCalls(updates[n].i)[3].path[2]}
    ELSE {}

=============================================================================
